---------------------------- MODULE Spec2Model ----------------------------
(***************************************************************************)
(* qmempool: a two-tier (per-CPU localq + shared sharedq) queue based      *)
(* mempool on top of a kmem_cache, kernel/mm/qmempool.c.                   *)
(*                                                                         *)
(* Element handles are positive integers handed out by the kmem_cache in   *)
(* increasing order and never reused; 0 is the NULL pointer.               *)
(***************************************************************************)
EXTENDS Integers, Sequences, FiniteSets, TLC

(* ---------------------------------------------------------------------- *)
(* Program constants                                                      *)
(* ---------------------------------------------------------------------- *)
QMEMPOOL_BULK == 16
QMEMPOOL_REFILL_MULTIPLIER == 2

(* ---------------------------------------------------------------------- *)
(* Bounds of the model                                                    *)
(* ---------------------------------------------------------------------- *)
\* kmem_cache_alloc returns NULL at most this many times in one run
MaxNull == 1
\* the caller on CPU 0 holds at most this many elements at a time
MaxHeld == 18
\* the caller on any other CPU holds at most this many elements at a time
MaxHeldOther == 1
\* a caller that has a pool to itself holds at most this many elements more
\* than were preallocated
ExtraAllocs == 8
\* where calls overlap, the caller on CPU 0 holds at most this many elements
RaceHeld == 33
\* and the caller on any other CPU at most this many
RaceHeldOther == 17

CPUS == {0, 1}
NULL == 0

(* ---------------------------------------------------------------------- *)
(* Helpers                                                                *)
(* ---------------------------------------------------------------------- *)
Range(s) == {s[k] : k \in 1..Len(s)}

RECURSIVE BitAnd(_, _)
BitAnd(a, b) ==
  IF a = 0 \/ b = 0 THEN 0
  ELSE (a % 2) * (b % 2) + 2 * BitAnd(a \div 2, b \div 2)

\* POWEROF2 taken for a test of the lowest bit
POWEROF2_Even(x) == x % 2 = 0

\* #define POWEROF2(x) (((x) & ((x) - 1)) == 0), x a uint32_t: for x = 0 the
\* subtraction wraps to 0xffffffff, and 0 & 0xffffffff is 0
POWEROF2(x) == IF x = 0 THEN TRUE ELSE BitAnd(x, x - 1) = 0

(* ---------------------------------------------------------------------- *)
(* ring_queue: a fixed-size FIFO of handles; a ring of size sz holds at   *)
(* most sz - 1 elements; bulk operations are all-or-nothing and their     *)
(* count is an unsigned int                                               *)
(* ---------------------------------------------------------------------- *)
NULLQ == [live |-> FALSE, sz |-> 0, q |-> <<>>]

ring_queue_create(sz) == [live |-> TRUE, sz |-> sz, q |-> <<>>]

\* (unsigned)n <= m for an int n and 0 <= m < 2^31: a negative int converts
\* to a value of at least 2^31
UnsignedLeq(n, m) == n >= 0 /\ n <= m

EnqueueFits(r, n) == UnsignedLeq(n, r.sz - 1 - Len(r.q))

\* the ring after a successful bulk enqueue of the first n handles of elems
ring_queue_enqueue_bulk(r, elems, n) ==
  [r EXCEPT !.q = @ \o SubSeq(elems, 1, n)]

DequeueFits(r, n) == UnsignedLeq(n, Len(r.q))

\* the handles a successful bulk dequeue of n returns, and the ring after it
DequeuedElems(r, n) == SubSeq(r.q, 1, n)

ring_queue_dequeue_bulk(r, n) == [r EXCEPT !.q = SubSeq(@, n + 1, Len(@))]

(* ---------------------------------------------------------------------- *)
(* kmem_cache: the backing allocator                                      *)
(*   next   the handle the next successful kmem_cache_alloc returns       *)
(*   nfree  the number of kmem_cache_free calls                            *)
(*   freed  the handles given back                                        *)
(*   dfree  a handle was given back twice                                 *)
(*   faulty kmem_cache_alloc may return NULL                               *)
(*   nulls  the number of kmem_cache_alloc calls that returned NULL        *)
(* ---------------------------------------------------------------------- *)
SlabInit(faulty) ==
  [next |-> 1, nfree |-> 0, freed |-> {}, dfree |-> FALSE, faulty |-> faulty,
   nulls |-> 0]

\* n successful kmem_cache_alloc calls: the handles, in call order
KmemFresh(s, n) == [k \in 1..n |-> s.next + k - 1]

KmemAllocN(s, n) == [s EXCEPT !.next = @ + n]

KmemAllocNull(s) == [s EXCEPT !.nulls = @ + 1]

\* kmem_cache_free of every handle of the sequence es
KmemFreeAll(s, es) ==
  [s EXCEPT !.nfree = @ + Len(es),
            !.freed = @ \cup Range(es),
            !.dfree = @ \/ (Range(es) \cap s.freed # {})
                        \/ (Cardinality(Range(es)) # Len(es))]

KmemAllocCalls(s) == s.next - 1


(* ---------------------------------------------------------------------- *)
(* State                                                                  *)
(* ---------------------------------------------------------------------- *)
VARIABLES
  args,        \* the arguments of qmempool_create
  phase,       \* "none" | "alive" | "failed" | "dead" | "oops"
  err,         \* what qmempool_create reported ("ok" when it made a pool)
  kpool,       \* the struct qmempool is allocated
  sharedq,     \* pool->sharedq
  percpu,      \* pool->percpu is allocated
  localq,      \* per CPU: cpu->localq
  refill_cnt,  \* per CPU: cpu->refill_cnt
  full_cnt,    \* per CPU: cpu->full_cnt
  owner_cpu,   \* per CPU: cpu->owner_cpu
  slab,        \* the kmem_cache
  res,         \* how many pool records, rings, per-CPU tables were made/released
  held,        \* per CPU: the handles its caller holds, oldest first
  caller,      \* per CPU: the burst its caller is in
  events,      \* per CPU: how often it refilled localq, and shrank sharedq
  pc,          \* per CPU: where its running call stands
  frame        \* per CPU: the locals of its running call

vars == <<args, phase, err, kpool, sharedq, percpu, localq, refill_cnt,
          full_cnt, owner_cpu, slab, res, held, caller, events, pc, frame>>

poolvars == <<kpool, sharedq, percpu, localq, refill_cnt, full_cnt, owner_cpu>>

\* refills   the shared-pool-to-local refills of lines 202-223 that succeeded
\* shrinks   the entries into __qmempool_free_to_slab
NoEvents == [refills |-> 0, shrinks |-> 0]

ResInit == [poolc |-> 0, poolf |-> 0, ringc |-> 0, ringf |-> 0,
            tabc |-> 0, tabf |-> 0]

NoSnap == [l |-> [c \in CPUS |-> 0], s |-> 0, na |-> 0, nf |-> 0]

\* kind    "alloc" | "free"
\* elem    the element of the call (allocated, or being freed)
\* elems   the on-stack array elems[]
\* i       the loop counter of the refill or shrink rounds
\* path    the last tier the call went to: "localq" | "sharedq" | "slab"
\* kcalls  the kmem_cache_alloc calls of this call (NULL returns included)
\* knulls  the kmem_cache_alloc calls of this call that returned NULL
\* rops    the ring operations of this call, failed ones included
\* pre     the tiers as the call found them
\* rt      the caller frees the element right after allocating it;
\* rtpre   the tiers as the allocate of that pair found them
NoFrame == [kind |-> "none", elem |-> NULL, elems |-> <<>>, i |-> 0,
            path |-> "none", kcalls |-> 0, knulls |-> 0, rops |-> 0,
            pre |-> NoSnap, rt |-> FALSE, rtpre |-> NoSnap]

\* the occupancy of every tier and the kmem_cache's counters, as a call finds them
Snapshot ==
  [l |-> [c \in CPUS |-> Len(localq[c].q)], s |-> Len(sharedq.q),
   na |-> KmemAllocCalls(slab), nf |-> slab.nfree]

(* ---------------------------------------------------------------------- *)
(* qmempool_destroy                                                       *)
(* ---------------------------------------------------------------------- *)
\* what a read through a NULL cpu->localq can do
UBOutcomes == {"fault", "benign"}

\* lines 40-49 for the CPUs j, j+1, ...; P is the pool with the kmem_cache
RECURSIVE DestroyLocalqs(_, _, _)
DestroyLocalqs(j, P, ub) ==
  IF j \notin CPUS \/ P.oops THEN P
  ELSE IF ~P.localq[j].live
       THEN IF ub = "fault" THEN [P EXCEPT !.oops = TRUE]
            ELSE DestroyLocalqs(j + 1, P, ub)
       ELSE DestroyLocalqs(j + 1,
              [P EXCEPT !.slab = KmemFreeAll(@, P.localq[j].q),
                        !.localq[j] = NULLQ,
                        !.res.ringf = @ + 1], ub)

DestroyPercpu(P, ub) ==
  IF ~P.percpu THEN P
  ELSE LET d == DestroyLocalqs(0, P, ub)
       IN  IF d.oops THEN d
           ELSE [d EXCEPT !.percpu = FALSE, !.res.tabf = @ + 1]

DestroySharedq(P) ==
  IF P.oops \/ ~P.sharedq.live THEN P
  ELSE [P EXCEPT !.slab = KmemFreeAll(@, P.sharedq.q),
                 !.sharedq = NULLQ,
                 !.res.ringf = @ + 1]

qmempool_destroy_pool(P, ub) ==
  LET d == DestroySharedq(DestroyPercpu(P, ub))
  IN  IF d.oops THEN d
      ELSE [d EXCEPT !.kpool = FALSE, !.res.poolf = @ + 1]

PoolNow ==
  [kpool |-> kpool, sharedq |-> sharedq, percpu |-> percpu, localq |-> localq,
   refill_cnt |-> refill_cnt, full_cnt |-> full_cnt, owner_cpu |-> owner_cpu,
   slab |-> slab, res |-> res, oops |-> FALSE]

Install(P) ==
  /\ kpool' = P.kpool
  /\ sharedq' = P.sharedq
  /\ percpu' = P.percpu
  /\ localq' = P.localq
  /\ refill_cnt' = P.refill_cnt
  /\ full_cnt' = P.full_cnt
  /\ owner_cpu' = P.owner_cpu
  /\ slab' = P.slab
  /\ res' = P.res

AllIdle == \A c \in CPUS : pc[c] = "idle"

qmempool_destroy ==
  /\ phase = "alive"
  /\ AllIdle
  /\ \E ub \in UBOutcomes :
       LET d == qmempool_destroy_pool(PoolNow, ub)
       IN  /\ Install(d)
           /\ phase' = IF d.oops THEN "oops" ELSE "dead"
  /\ UNCHANGED <<args, err, held, events, pc, frame>>

(* ---------------------------------------------------------------------- *)
(* qmempool_create                                                        *)
(* ---------------------------------------------------------------------- *)
\* lines 72-109: the first check that rejects the arguments, "ok" if none
ArgError(a) ==
  IF a.localq_sz < QMEMPOOL_BULK THEN "localq_small"
  ELSE IF a.sharedq_sz <= QMEMPOOL_BULK * QMEMPOOL_REFILL_MULTIPLIER
       THEN "sharedq_small"
  ELSE IF ~POWEROF2(a.localq_sz) \/ ~POWEROF2(a.sharedq_sz) THEN "not_pow2"
  ELSE IF a.prealloc >= a.sharedq_sz THEN "prealloc"
  ELSE IF ~a.kmem THEN "kmem_null"
  ELSE "ok"

\* where an allocation made by qmempool_create can fail
CreateFailPoints(a) ==
  {[at |-> w, k |-> 0] : w \in {"none", "kzalloc", "sharedq", "percpu"}}
    \cup {[at |-> "prealloc", k |-> k] : k \in 0..(a.prealloc - 1)}
    \cup {[at |-> "localq", k |-> j] : j \in CPUS}

\* lines 111-113
CreateKzalloc(P) == [P EXCEPT !.kpool = TRUE, !.res.poolc = @ + 1]

\* lines 118
CreateSharedq(P, a) ==
  [P EXCEPT !.sharedq = ring_queue_create(a.sharedq_sz), !.res.ringc = @ + 1]

\* the preallocation loop running once too often
CreatePrealloc_Extra(P, n) ==
  [P EXCEPT !.sharedq = ring_queue_enqueue_bulk(@, KmemFresh(P.slab, n + 1),
                                                n + 1),
            !.slab = KmemAllocN(@, n + 1),
            !.oops = ~EnqueueFits(P.sharedq, n + 1)]

\* the preallocation loop stopping one element short
CreatePrealloc_Short(P, n) ==
  LET m == IF n > 0 THEN n - 1 ELSE 0 IN
  [P EXCEPT !.sharedq = ring_queue_enqueue_bulk(@, KmemFresh(P.slab, m), m),
            !.slab = KmemAllocN(@, m),
            !.oops = ~EnqueueFits(P.sharedq, m)]

\* lines 127-136, n elements allocated and enqueued one by one
CreatePrealloc(P, n) ==
  [P EXCEPT !.sharedq = ring_queue_enqueue_bulk(@, KmemFresh(P.slab, n), n),
            !.slab = KmemAllocN(@, n),
            !.oops = ~EnqueueFits(P.sharedq, n)]

\* line 138
CreatePercpu(P) == [P EXCEPT !.percpu = TRUE, !.res.tabc = @ + 1]

\* the local rings made with half the capacity asked for
CreateLocalqs_Half(P, a, n) ==
  [P EXCEPT !.localq = [c \in CPUS |->
                          IF c < n THEN ring_queue_create(a.localq_sz \div 2)
                          ELSE NULLQ],
            !.refill_cnt = [c \in CPUS |-> 0],
            !.full_cnt = [c \in CPUS |-> 0],
            !.owner_cpu = [c \in CPUS |-> IF c < n THEN -1 ELSE 0],
            !.res.ringc = @ + Cardinality({c \in CPUS : c < n})]

\* lines 146-160 for the CPUs below n
CreateLocalqs(P, a, n) ==
  [P EXCEPT !.localq = [c \in CPUS |->
                          IF c < n THEN ring_queue_create(a.localq_sz)
                          ELSE NULLQ],
            !.refill_cnt = [c \in CPUS |-> 0],
            !.full_cnt = [c \in CPUS |-> 0],
            !.owner_cpu = [c \in CPUS |-> IF c < n THEN -1 ELSE 0],
            !.res.ringc = @ + Cardinality({c \in CPUS : c < n})]

NullAlloc(P) == [P EXCEPT !.slab = KmemAllocNull(@)]

\* qmempool_create with its f-th allocation failing
CreateWith(P, a, f, ub) ==
  IF f.at = "kzalloc" THEN P
  ELSE LET p1 == CreateKzalloc(P) IN
  IF f.at = "sharedq" THEN qmempool_destroy_pool(p1, ub)
  ELSE LET p2 == CreateSharedq(p1, a) IN
  IF f.at = "prealloc"
    THEN qmempool_destroy_pool(NullAlloc(CreatePrealloc(p2, f.k)), ub)
  ELSE LET p3 == CreatePrealloc(p2, a.prealloc) IN
  IF p3.oops THEN p3
  ELSE IF f.at = "percpu" THEN qmempool_destroy_pool(p3, ub)
  ELSE LET p4 == CreatePercpu(p3) IN
  IF f.at = "localq"
    THEN qmempool_destroy_pool(CreateLocalqs(p4, a, f.k), ub)
  ELSE CreateLocalqs(p4, a, Cardinality(CPUS))

qmempool_create ==
  /\ phase = "none"
  /\ LET e == ArgError(args) IN
     IF e # "ok"
       THEN /\ phase' = "failed"
            /\ err' = e
            /\ UNCHANGED <<poolvars, slab, res>>
       ELSE \E f \in CreateFailPoints(args), ub \in UBOutcomes :
              LET d == CreateWith(PoolNow, args, f, ub)
              IN  /\ Install(d)
                  /\ err' = IF f.at = "none" THEN "ok" ELSE f.at
                  /\ phase' = IF d.oops THEN "oops"
                              ELSE IF f.at = "none" THEN "alive"
                              ELSE "failed"
  /\ UNCHANGED <<args, held, events, pc, frame>>


(* ---------------------------------------------------------------------- *)
(* Allocate                                                               *)
(* ---------------------------------------------------------------------- *)
Oops == phase' = "oops"

\* kmem_cache_alloc may return NULL
MayFail == slab.faulty /\ slab.nulls < MaxNull

\* a single dequeue from localq, and a single enqueue into it
LocalDequeue(r) == ring_queue_dequeue_bulk(r, 1)

LocalEnqueue(r, h) == ring_queue_enqueue_bulk(r, <<h>>, 1)

\* The caller of CPU c calls allocate; with rt it will free the element at
\* once.  Fast path: a single dequeue from the CPU's localq.
qmempool_alloc(c, rt) ==
  /\ phase = "alive"
  /\ pc[c] = "idle"
  /\ LET f == [NoFrame EXCEPT !.kind = "alloc", !.pre = Snapshot, !.rt = rt,
                              !.rops = 1]
     IN  IF DequeueFits(localq[c], 1)
           THEN /\ localq' = [localq EXCEPT ![c] = LocalDequeue(@)]
                /\ frame' = [frame EXCEPT ![c] =
                       [f EXCEPT !.elem = localq[c].q[1], !.path = "localq"]]
                /\ pc' = [pc EXCEPT ![c] = "alloc_ret"]
           ELSE /\ frame' = [frame EXCEPT ![c] = f]
                /\ pc' = [pc EXCEPT ![c] = "alloc_sharedq"]
                /\ UNCHANGED localq
  /\ UNCHANGED <<args, phase, err, kpool, sharedq, percpu, refill_cnt,
                 full_cnt, owner_cpu, slab, res, held, events>>

\* the refill of localq putting back one element too few
LocalqRefillCount_Short == QMEMPOOL_BULK - 2

\* the refill of localq putting back all BULK elements
LocalqRefillCount_Whole == QMEMPOOL_BULK

\* lines 212-213: elems[0] is for the caller, the rest goes to localq
LocalqRefillCount == QMEMPOOL_BULK - 1

\* lines 191-226
qmempool_alloc_from_sharedq(c) ==
  /\ phase = "alive"
  /\ pc[c] = "alloc_sharedq"
  /\ IF DequeueFits(sharedq, QMEMPOOL_BULK)
       THEN LET elems == DequeuedElems(sharedq, QMEMPOOL_BULK) IN
            /\ sharedq' = ring_queue_dequeue_bulk(sharedq, QMEMPOOL_BULK)
            /\ frame' = [frame EXCEPT ![c].elems = elems,
                                      ![c].elem = elems[1],
                                      ![c].path = "sharedq",
                                      ![c].rops = @ + 2]
            /\ IF EnqueueFits(localq[c], LocalqRefillCount)
                 THEN /\ localq' = [localq EXCEPT ![c] =
                            ring_queue_enqueue_bulk(@, Tail(elems),
                                                    LocalqRefillCount)]
                      /\ events' = [events EXCEPT ![c].refills = @ + 1]
                      /\ pc' = [pc EXCEPT ![c] = "alloc_ret"]
                      /\ UNCHANGED phase
                 ELSE /\ Oops
                      /\ UNCHANGED <<localq, events, pc>>
       ELSE /\ frame' = [frame EXCEPT ![c].rops = @ + 1]
            /\ pc' = [pc EXCEPT ![c] = "alloc_slab"]
            /\ UNCHANGED <<sharedq, localq, events, phase>>
  /\ UNCHANGED <<args, err, kpool, percpu, refill_cnt, full_cnt, owner_cpu,
                 slab, res, held>>

\* lines 239-248: the element of the caller
qmempool_alloc_from_slab(c) ==
  /\ phase = "alive"
  /\ pc[c] = "alloc_slab"
  /\ \/ /\ slab' = KmemAllocN(slab, 1)
        /\ frame' = [frame EXCEPT ![c].elem = slab.next,
                                  ![c].path = "slab",
                                  ![c].kcalls = @ + 1,
                                  ![c].i = 0]
        /\ pc' = [pc EXCEPT ![c] = "slab_refill"]
     \/ /\ MayFail
        /\ slab' = KmemAllocNull(slab)
        /\ frame' = [frame EXCEPT ![c].elem = NULL,
                                  ![c].path = "slab",
                                  ![c].kcalls = @ + 1,
                                  ![c].knulls = @ + 1]
        /\ pc' = [pc EXCEPT ![c] = "alloc_ret"]
  /\ UNCHANGED <<args, phase, err, poolvars, res, held, events>>

\* the allocations of a refill round at which kmem_cache_alloc may return
\* NULL: the first, the second, the third and the last
NullPoints == {0, 1, 2, QMEMPOOL_BULK - 1}

\* the allocations of one refill round that succeed: all of them, or j
RefillOutcomes == {QMEMPOOL_BULK} \cup (IF MayFail THEN NullPoints ELSE {})

\* line 259: how many of the j allocated elements are enqueued
PartialCount(j) == j - 1

\* every refill round enqueueing as after a NULL
RefillCount_AlwaysPartial(j) == PartialCount(j)

\* lines 256-265: what a refill round that allocated j elements enqueues
RefillCount(j) ==
  IF j < QMEMPOOL_BULK THEN PartialCount(j) ELSE QMEMPOOL_BULK

\* the slowest path putting the element of the caller into localq as well
SlabPathLocalq_Refill(c) ==
  [localq EXCEPT ![c] = LocalEnqueue(@, frame[c].elem)]

\* lines 274-281: the slowest path returns without refilling localq
SlabPathLocalq(c) == localq

\* the refill loop left after its first round
LastRefillRound_Once(i) == TRUE

\* the refill loop run with <= for <
LastRefillRound_Late(i) == ~(i + 1 <= QMEMPOOL_REFILL_MULTIPLIER)

\* line 250: round i was the last one of the refill
LastRefillRound(i) == ~(i + 1 < QMEMPOOL_REFILL_MULTIPLIER)

\* lines 250-272: one round of the refill of sharedq
qmempool_alloc_slab_refill(c) ==
  /\ phase = "alive"
  /\ pc[c] = "slab_refill"
  /\ \E j \in RefillOutcomes :
       LET elems == KmemFresh(slab, j)
           n == RefillCount(j)
           last == j < QMEMPOOL_BULK \/ LastRefillRound(frame[c].i)
       IN  /\ slab' = IF j < QMEMPOOL_BULK
                        THEN KmemAllocNull(KmemAllocN(slab, j))
                        ELSE KmemAllocN(slab, j)
           /\ frame' = [frame EXCEPT
                  ![c].elems = elems,
                  ![c].i = IF j < QMEMPOOL_BULK THEN @ ELSE @ + 1,
                  ![c].kcalls = @ + (IF j < QMEMPOOL_BULK THEN j + 1 ELSE j),
                  ![c].knulls = @ + (IF j < QMEMPOOL_BULK THEN 1 ELSE 0),
                  ![c].rops = @ + 1]
           /\ IF EnqueueFits(sharedq, n)
                THEN /\ sharedq' = ring_queue_enqueue_bulk(sharedq, elems, n)
                     /\ pc' = [pc EXCEPT ![c] =
                                 IF last THEN "alloc_ret" ELSE "slab_refill"]
                     /\ UNCHANGED phase
                ELSE /\ Oops
                     /\ UNCHANGED <<sharedq, pc>>
  /\ localq' = SlabPathLocalq(c)
  /\ UNCHANGED <<args, err, kpool, percpu, refill_cnt, full_cnt, owner_cpu,
                 res, held, events>>

\* refill_cnt counting every allocate
RefillCounted_Always(f) == TRUE

\* refill_cnt counts the allocates that refilled localq from sharedq
RefillCounted(f) == f.path = "sharedq"

\* allocate returns to its caller
qmempool_alloc_return(c) ==
  /\ phase = "alive"
  /\ pc[c] = "alloc_ret"
  /\ refill_cnt' = [refill_cnt EXCEPT ![c] =
                      IF RefillCounted(frame[c]) THEN @ + 1 ELSE @]
  /\ held' = [held EXCEPT ![c] =
                IF frame[c].elem # NULL THEN Append(@, frame[c].elem) ELSE @]
  /\ IF frame[c].rt /\ frame[c].elem # NULL
       THEN /\ pc' = [pc EXCEPT ![c] = "rt"]
            /\ frame' = [frame EXCEPT ![c] =
                   [NoFrame EXCEPT !.rt = TRUE, !.elem = frame[c].elem,
                                   !.rtpre = frame[c].pre]]
       ELSE /\ pc' = [pc EXCEPT ![c] = "idle"]
            /\ frame' = [frame EXCEPT ![c] = NoFrame]
  /\ UNCHANGED <<args, phase, err, kpool, sharedq, percpu, localq, full_cnt,
                 owner_cpu, slab, res, events>>

(* ---------------------------------------------------------------------- *)
(* Free                                                                   *)
(* ---------------------------------------------------------------------- *)
\* the held handles without h
Without(hs, h) == SelectSeq(hs, LAMBDA x : x # h)

\* The caller of CPU c frees the handle h.  Fast path: a single enqueue into
\* the CPU's localq.
qmempool_free(c, h) ==
  /\ phase = "alive"
  /\ \/ pc[c] = "idle"
     \/ pc[c] = "rt" /\ h = frame[c].elem
  /\ h \in Range(held[c])
  /\ held' = [held EXCEPT ![c] = Without(@, h)]
  /\ LET f == [NoFrame EXCEPT !.kind = "free", !.elem = h, !.pre = Snapshot,
                              !.rt = frame[c].rt, !.rtpre = frame[c].rtpre,
                              !.rops = 1]
     IN  IF EnqueueFits(localq[c], 1)
           THEN /\ localq' = [localq EXCEPT ![c] = LocalEnqueue(@, h)]
                /\ frame' = [frame EXCEPT ![c] = [f EXCEPT !.path = "localq"]]
                /\ pc' = [pc EXCEPT ![c] = "free_ret"]
           ELSE /\ frame' = [frame EXCEPT ![c] = f]
                /\ pc' = [pc EXCEPT ![c] = "free_sharedq"]
                /\ UNCHANGED localq
  /\ UNCHANGED <<args, phase, err, kpool, sharedq, percpu, refill_cnt,
                 full_cnt, owner_cpu, slab, res, events>>

\* localq is full: the element and BULK-1 elements of localq go to sharedq
qmempool_free_to_sharedq(c) ==
  /\ phase = "alive"
  /\ pc[c] = "free_sharedq"
  /\ IF DequeueFits(localq[c], QMEMPOOL_BULK - 1)
       THEN LET elems == <<frame[c].elem>> \o
                           DequeuedElems(localq[c], QMEMPOOL_BULK - 1) IN
            /\ localq' = [localq EXCEPT ![c] =
                            ring_queue_dequeue_bulk(@, QMEMPOOL_BULK - 1)]
            /\ UNCHANGED phase
            /\ IF EnqueueFits(sharedq, QMEMPOOL_BULK)
                 THEN /\ sharedq' = ring_queue_enqueue_bulk(sharedq, elems,
                                                            QMEMPOOL_BULK)
                      /\ frame' = [frame EXCEPT ![c].elems = elems,
                                                ![c].path = "sharedq",
                                                ![c].rops = @ + 2]
                      /\ pc' = [pc EXCEPT ![c] = "free_ret"]
                 ELSE /\ frame' = [frame EXCEPT ![c].elems = elems,
                                                ![c].path = "slab",
                                                ![c].i = 0,
                                                ![c].rops = @ + 2]
                      /\ pc' = [pc EXCEPT ![c] = "free_to_slab"]
                      /\ UNCHANGED sharedq
       ELSE /\ Oops
            /\ UNCHANGED <<localq, sharedq, frame, pc>>
  /\ UNCHANGED <<args, err, kpool, percpu, refill_cnt, full_cnt, owner_cpu,
                 slab, res, held, events>>

\* the shrink loop run with <= for <
LastShrinkRound_Late(i) == ~(i + 1 <= QMEMPOOL_REFILL_MULTIPLIER)

\* line 299: round i was the last one of the shrink
LastShrinkRound(i) == ~(i + 1 < QMEMPOOL_REFILL_MULTIPLIER)

\* lines 286-308: the frees of elems[] and then one shrink round per step
qmempool_free_to_slab(c) ==
  /\ phase = "alive"
  /\ pc[c] = "free_to_slab"
  /\ LET s0 == IF frame[c].i = 0 THEN KmemFreeAll(slab, frame[c].elems)
               ELSE slab
     IN  IF DequeueFits(sharedq, QMEMPOOL_BULK)
           THEN LET elems == DequeuedElems(sharedq, QMEMPOOL_BULK) IN
                /\ sharedq' = ring_queue_dequeue_bulk(sharedq, QMEMPOOL_BULK)
                /\ slab' = KmemFreeAll(s0, elems)
                /\ frame' = [frame EXCEPT ![c].elems = elems, ![c].i = @ + 1,
                                          ![c].rops = @ + 1]
                /\ pc' = [pc EXCEPT ![c] =
                            IF LastShrinkRound(frame[c].i)
                              THEN "free_ret" ELSE "free_to_slab"]
                /\ UNCHANGED phase
           ELSE /\ slab' = s0
                /\ Oops
                /\ UNCHANGED <<sharedq, frame, pc>>
  /\ events' = [events EXCEPT ![c].shrinks =
                               IF frame[c].i = 0 THEN @ + 1 ELSE @]
  /\ UNCHANGED <<args, err, kpool, percpu, localq, refill_cnt, full_cnt,
                 owner_cpu, res, held>>

\* free returns to its caller
qmempool_free_return(c) ==
  /\ phase = "alive"
  /\ pc[c] = "free_ret"
  /\ full_cnt' = [full_cnt EXCEPT ![c] =
                    IF frame[c].path = "slab" THEN @ + 1 ELSE @]
  /\ pc' = [pc EXCEPT ![c] = "idle"]
  /\ frame' = [frame EXCEPT ![c] = NoFrame]
  /\ UNCHANGED <<args, phase, err, kpool, sharedq, percpu, localq, refill_cnt,
                 owner_cpu, slab, res, held, events>>

(* ---------------------------------------------------------------------- *)
(* Specifications                                                         *)
(* ---------------------------------------------------------------------- *)
Args(l, s, p, k) == [localq_sz |-> l, sharedq_sz |-> s, prealloc |-> p, kmem |-> k]

InitWith(A, F) ==
  /\ args \in A
  /\ phase = "none"
  /\ err = "none"
  /\ kpool = FALSE
  /\ sharedq = NULLQ
  /\ percpu = FALSE
  /\ localq = [c \in CPUS |-> NULLQ]
  /\ refill_cnt = [c \in CPUS |-> 0]
  /\ full_cnt = [c \in CPUS |-> 0]
  /\ owner_cpu = [c \in CPUS |-> 0]
  /\ \E faulty \in F : slab = SlabInit(faulty)
  /\ res = ResInit
  /\ held = [c \in CPUS |-> <<>>]
  /\ caller = [c \in CPUS |-> "start"]
  /\ events = [c \in CPUS |-> NoEvents]
  /\ pc = [c \in CPUS |-> "idle"]
  /\ frame = [c \in CPUS |-> NoFrame]

\* calls run one at a time: CPU c steps only while no other CPU is in a call
Alone(c) == \A d \in CPUS \ {c} : pc[d] = "idle"

\* A caller works in two bursts: it allocates for a while ("allocating"),
\* then frees what it holds, oldest first ("freeing").  A run may end with
\* one caller allocating an element and freeing it at once, after which no
\* caller starts another call ("done"); the pool is destroyed once the
\* callers have given back what they held.  A caller holds at most n
\* elements at a time.
CallerAllocs(c, n) ==
  /\ caller[c] \in {"start", "allocating"}
  /\ Len(held[c]) < n
  /\ caller' = [caller EXCEPT ![c] = "allocating"]

CallerFrees(c, h) ==
  /\ pc[c] = "idle"
  /\ caller[c] \in {"allocating", "freeing"}
  /\ held[c] # <<>>
  /\ h = Head(held[c])
  /\ caller' = [caller EXCEPT ![c] = "freeing"]

CallerRoundTrip(c, n) ==
  /\ caller[c] # "done"
  /\ Len(held[c]) < n
  /\ caller' = [d \in CPUS |-> "done"]

CallerFreesAtOnce(c, h) ==
  /\ pc[c] = "rt"
  /\ h = frame[c].elem
  /\ UNCHANGED caller

Step(c) == Alone(c) /\ UNCHANGED caller

CallersLeft == \A c \in CPUS : held[c] = <<>>

\* the steps inside a call, and the frees, whoever the callers are
CallSteps ==
  \/ \E c \in CPUS : Step(c) /\ qmempool_alloc_from_sharedq(c)
  \/ \E c \in CPUS : Step(c) /\ qmempool_alloc_from_slab(c)
  \/ \E c \in CPUS : Step(c) /\ qmempool_alloc_slab_refill(c)
  \/ \E c \in CPUS : Step(c) /\ qmempool_alloc_return(c)
  \/ \E c \in CPUS : Alone(c) /\
       \E h \in Range(held[c]) : CallerFrees(c, h) /\ qmempool_free(c, h)
  \/ \E c \in CPUS : Alone(c) /\
       \E h \in Range(held[c]) : CallerFreesAtOnce(c, h) /\ qmempool_free(c, h)
  \/ \E c \in CPUS : Step(c) /\ qmempool_free_to_sharedq(c)
  \/ \E c \in CPUS : Step(c) /\ qmempool_free_to_slab(c)
  \/ \E c \in CPUS : Step(c) /\ qmempool_free_return(c)

(* Spec: one pool, callers on every CPU, a kmem_cache that may return NULL *)
RunArgs == {Args(16, 64, 0, TRUE)}

Init == InitWith(RunArgs, {TRUE})

HeldBound(c) == IF c = 0 THEN MaxHeld ELSE MaxHeldOther

Next ==
  \/ qmempool_create /\ UNCHANGED caller
  \/ CallersLeft /\ qmempool_destroy /\ UNCHANGED caller
  \/ \E c \in CPUS : Alone(c) /\ CallerAllocs(c, HeldBound(c))
                              /\ qmempool_alloc(c, FALSE)
  \/ \E c \in CPUS : Alone(c) /\ CallerRoundTrip(c, HeldBound(c))
                              /\ qmempool_alloc(c, TRUE)
  \/ CallSteps

Spec == Init /\ [][Next]_vars

(* SpecCreate: qmempool_create on any arguments, and qmempool_destroy      *)
CreateArgs ==
  {Args(l, s, p, k) : l \in {0, 8, 16, 24, 32}, s \in {0, 32, 48, 64, 128},
                      p \in {0, 5, 16, 63, 64, 200}, k \in BOOLEAN}

InitCreate == InitWith(CreateArgs, {TRUE})

NextCreate ==
  \/ qmempool_create /\ UNCHANGED caller
  \/ qmempool_destroy /\ UNCHANGED caller

SpecCreate == InitCreate /\ [][NextCreate]_vars

(* SpecOneCpu: pools of several sizes, the caller of a single CPU, a       *)
(* kmem_cache that never returns NULL                                      *)
OneCpuArgs ==
  {Args(l, 64, p, TRUE) : l \in {16, 32}, p \in {0, 32, 40, 48}}

InitOneCpu == InitWith(OneCpuArgs, {FALSE})

\* no caller but that of CPU c has made a call
OnlyCpu(c) == \A d \in CPUS \ {c} : caller[d] = "start"

OneCpuBound == args.prealloc + ExtraAllocs

NextOneCpu ==
  \/ qmempool_create /\ UNCHANGED caller
  \/ CallersLeft /\ qmempool_destroy /\ UNCHANGED caller
  \/ \E c \in CPUS : OnlyCpu(c) /\ CallerAllocs(c, OneCpuBound)
                                /\ qmempool_alloc(c, FALSE)
  \/ \E c \in CPUS : OnlyCpu(c) /\ CallerRoundTrip(c, OneCpuBound)
                                /\ qmempool_alloc(c, TRUE)
  \/ CallSteps

SpecOneCpu == InitOneCpu /\ [][NextOneCpu]_vars

(* SpecRace: the calls of different CPUs overlap, each step of a call     *)
(* being one access to a ring or to the kmem_cache; the kmem_cache never   *)
(* returns NULL.  The caller of CPU 0 starts; the callers of the other     *)
(* CPUs join once it holds as many elements as were preallocated, and      *)
(* keep what they allocate.                                                *)
RaceArgs == {Args(16, 64, 32, TRUE)}

InitRace == InitWith(RaceArgs, {FALSE})

RaceBound(c) == IF c = 0 THEN RaceHeld ELSE RaceHeldOther

RaceJoins(c) ==
  c = 0 \/ caller[0] = "freeing" \/ Len(held[0]) >= args.prealloc

NextRace ==
  \/ qmempool_create /\ UNCHANGED caller
  \/ held[0] = <<>> /\ qmempool_destroy /\ UNCHANGED caller
  \/ \E c \in CPUS : RaceJoins(c) /\ CallerAllocs(c, RaceBound(c))
                                  /\ qmempool_alloc(c, FALSE)
  \/ \E c \in CPUS : qmempool_alloc_from_sharedq(c) /\ UNCHANGED caller
  \/ \E c \in CPUS : qmempool_alloc_from_slab(c) /\ UNCHANGED caller
  \/ \E c \in CPUS : qmempool_alloc_slab_refill(c) /\ UNCHANGED caller
  \/ \E c \in CPUS : qmempool_alloc_return(c) /\ UNCHANGED caller
  \/ \E h \in Range(held[0]) : CallerFrees(0, h) /\ qmempool_free(0, h)
  \/ \E c \in CPUS : qmempool_free_to_sharedq(c) /\ UNCHANGED caller
  \/ \E c \in CPUS : qmempool_free_to_slab(c) /\ UNCHANGED caller
  \/ \E c \in CPUS : qmempool_free_return(c) /\ UNCHANGED caller

SpecRace == InitRace /\ [][NextRace]_vars

(* ---------------------------------------------------------------------- *)
(* Properties                                                             *)
(* ---------------------------------------------------------------------- *)
RECURSIVE SumOver(_, _)
SumOver(S, f) ==
  IF S = {} THEN 0
  ELSE LET x == CHOOSE y \in S : TRUE IN f[x] + SumOver(S \ {x}, f)

\* how many times the handle h is in the sequence q
Times(q, h) == Cardinality({k \in 1..Len(q) : q[k] = h})

\* the elements in the localqs and in sharedq, and those the callers hold
Resident ==
  SumOver(CPUS, [c \in CPUS |-> Len(localq[c].q)]) + Len(sharedq.q)

HeldCount == SumOver(CPUS, [c \in CPUS |-> Len(held[c])])

\* in how many places the handle h is: the localqs, sharedq, the callers'
\* hands, the kmem_cache it was given back to
Places(h) ==
  SumOver(CPUS, [c \in CPUS |-> Times(localq[c].q, h) + Times(held[c], h)])
    + Times(sharedq.q, h) + (IF h \in slab.freed THEN 1 ELSE 0)

\* the pool is alive and no call is running
Quiet == phase = "alive" /\ AllIdle

\* the tiers hold what the snapshot s says
SameOccupancy(s) ==
  /\ Len(sharedq.q) = s.s
  /\ \A d \in CPUS : Len(localq[d].q) = s.l[d]

\* C1 (Conservation): between calls on a live pool, the elements in the
\* local caches, in the shared pool and in the callers' hands are as many as
\* the successful kmem_cache_alloc calls minus the kmem_cache_free calls.
Conservation ==
  Quiet => Resident + HeldCount = KmemAllocCalls(slab) - slab.nfree

\* C2 (Exclusive location): between calls on a live pool, every handle the
\* kmem_cache has handed out is in exactly one place: one local cache, the
\* shared pool, one caller's hands, or given back to the kmem_cache, and no
\* handle was given back twice.
ExclusiveLocation ==
  Quiet => /\ \A h \in 1..KmemAllocCalls(slab) : Places(h) = 1
           /\ ~slab.dfree

\* a power of two, by the powers themselves
IsPowerOfTwo(x) == \E k \in 0..30 : x = 2^k

\* the argument tuples C3 says are rejected
Rejected(a) ==
  \/ a.localq_sz < QMEMPOOL_BULK
  \/ a.sharedq_sz <= QMEMPOOL_BULK * QMEMPOOL_REFILL_MULTIPLIER
  \/ ~IsPowerOfTwo(a.localq_sz)
  \/ ~IsPowerOfTwo(a.sharedq_sz)
  \/ a.prealloc >= a.sharedq_sz
  \/ ~a.kmem

ConfigErrors ==
  {"localq_small", "sharedq_small", "not_pow2", "prealloc", "kmem_null"}

NothingAllocated ==
  /\ res = ResInit
  /\ ~kpool /\ ~percpu /\ ~sharedq.live
  /\ \A c \in CPUS : ~localq[c].live

\* C3 (Capacity rejection): once qmempool_create has returned on a rejected
\* argument tuple, it has reported a configuration error, no kmem_cache_alloc
\* call was made (none that returned NULL either), and no pool record, ring
\* or per-CPU table is allocated.
CapacityRejection ==
  (phase # "none" /\ Rejected(args)) =>
     /\ phase = "failed"
     /\ err \in ConfigErrors
     /\ KmemAllocCalls(slab) = 0 /\ slab.nulls = 0
     /\ NothingAllocated

\* qmempool_create rejects a capacity that is large enough but no power of two
CapacityRejectionWitness ==
  /\ phase = "failed"
  /\ err = "not_pow2"
  /\ args.localq_sz = 24 /\ args.sharedq_sz = 64
  /\ args.prealloc = 16 /\ args.kmem

\* a construction step of qmempool_create has failed
ConstructionFailed == ArgError(args) = "ok" /\ err \notin {"none", "ok"}

\* C4 (Create is all-or-nothing): when a construction step of
\* qmempool_create fails, the call returns without a fatal fault, every
\* element obtained from the kmem_cache was given back exactly once, and
\* every pool record, ring and table made was released exactly once.
CreateAllOrNothing ==
  ConstructionFailed =>
     /\ phase = "failed"
     /\ slab.nfree = KmemAllocCalls(slab) /\ ~slab.dfree
     /\ res.poolf = res.poolc /\ res.ringf = res.ringc /\ res.tabf = res.tabc

\* C5 (Exhaustive destroy): after qmempool_destroy of a pool whose callers
\* have freed every handle they were given, the kmem_cache_free calls are as
\* many as the successful kmem_cache_alloc calls, and no handle was given
\* back twice.
ExhaustiveDestroy ==
  (phase = "dead" /\ CallersLeft) =>
     slab.nfree = KmemAllocCalls(slab) /\ ~slab.dfree

\* the one kmem_cache_alloc call of the allocate was the direct one, and it
\* returned NULL
DirectAllocNull(f) == f.path = "slab" /\ f.kcalls = 1 /\ f.knulls = 1

\* C6 (Single failure mode of allocate): an allocate returns NULL exactly
\* when the CPU's local cache was empty, the shared pool held fewer than
\* BULK elements and the direct kmem_cache_alloc returned NULL, and then no
\* tier's occupancy has changed and no other kmem_cache call was made; every
\* other allocate returns an element, so none ends in a fatal assertion.
SingleFailureMode ==
  \A c \in CPUS :
    /\ (phase = "alive" /\ pc[c] = "alloc_ret") =>
         LET f == frame[c] IN
         /\ f.elem = NULL <=> /\ f.pre.l[c] = 0
                              /\ f.pre.s < QMEMPOOL_BULK
                              /\ DirectAllocNull(f)
         /\ f.elem = NULL => /\ SameOccupancy(f.pre)
                             /\ f.kcalls = 1
                             /\ slab.nfree = f.pre.nf
    /\ ~(phase = "oops" /\ frame[c].kind = "alloc")

\* the tiers of the snapshot s are all empty
AllEmpty(s) == s.s = 0 /\ \A d \in CPUS : s.l[d] = 0

\* an allocate of CPU c that found every tier empty and saw no NULL from
\* the kmem_cache is about to return
RefillCase(c) ==
  /\ phase = "alive"
  /\ pc[c] = "alloc_ret"
  /\ AllEmpty(frame[c].pre)
  /\ frame[c].knulls = 0

\* the handles the tiers retain
Retained ==
  Range(sharedq.q) \cup UNION {Range(localq[d].q) : d \in CPUS}

\* C7 as stated (Refill correctness): an allocate that found every tier
\* empty, the kmem_cache never failing, makes at least one kmem_cache_alloc
\* call and ends with (REFILL_MULTIPLIER - 1) * BULK elements in the shared
\* pool and BULK - 1 in the CPU's local cache, its element retained nowhere.
RefillCorrectnessAsStated ==
  \A c \in CPUS :
    RefillCase(c) =>
      /\ frame[c].kcalls >= 1
      /\ Len(sharedq.q) = (QMEMPOOL_REFILL_MULTIPLIER - 1) * QMEMPOOL_BULK
      /\ Len(localq[c].q) = QMEMPOOL_BULK - 1
      /\ frame[c].elem # NULL /\ frame[c].elem \notin Retained

\* C7 (Refill correctness, amended): an allocate that found every tier
\* empty, the kmem_cache never failing, makes at least one kmem_cache_alloc
\* call and ends with REFILL_MULTIPLIER * BULK elements in the shared pool
\* and the CPU's local cache still empty, its element retained nowhere and
\* the retained elements distinct.
RefillCorrectness ==
  \A c \in CPUS :
    RefillCase(c) =>
      /\ frame[c].kcalls >= 1
      /\ Len(sharedq.q) = QMEMPOOL_REFILL_MULTIPLIER * QMEMPOOL_BULK
      /\ Len(localq[c].q) = 0
      /\ frame[c].elem # NULL /\ frame[c].elem \notin Retained
      /\ Cardinality(Range(sharedq.q)) = Len(sharedq.q)

\* an allocate of a caller that holds elements already has found every
\* tier empty and refilled the shared pool from the kmem_cache
RefillCorrectnessWitness ==
  \E c \in CPUS :
    /\ RefillCase(c)
    /\ frame[c].path = "slab"
    /\ frame[c].kcalls = 1 + QMEMPOOL_REFILL_MULTIPLIER * QMEMPOOL_BULK
    /\ held[c] # <<>>

\* a free of CPU c found its local cache full and the shared pool without
\* room for a batch of BULK
OverflowCase(c) ==
  /\ frame[c].kind = "free"
  /\ frame[c].pre.l[c] = args.localq_sz - 1
  /\ frame[c].pre.s + QMEMPOOL_BULK > args.sharedq_sz - 1

\* C8 (Overflow correctness): a free that found the local cache full and
\* the shared pool without room for the batch takes the free-to-slab path,
\* which ends without a fatal assertion, having made exactly
\* BULK * (REFILL_MULTIPLIER + 1) kmem_cache_free calls and taken exactly
\* BULK * REFILL_MULTIPLIER elements out of the shared pool.
OverflowCorrectness ==
  \A c \in CPUS :
    /\ (phase = "alive" /\ pc[c] = "free_ret") =>
         /\ OverflowCase(c) <=> frame[c].path = "slab"
         /\ frame[c].path = "slab" =>
              /\ slab.nfree - frame[c].pre.nf
                   = QMEMPOOL_BULK * (QMEMPOOL_REFILL_MULTIPLIER + 1)
              /\ frame[c].pre.s - Len(sharedq.q)
                   = QMEMPOOL_BULK * QMEMPOOL_REFILL_MULTIPLIER
              /\ KmemAllocCalls(slab) = frame[c].pre.na
    /\ ~(phase = "oops" /\ OverflowCase(c))

\* a free has gone through the free-to-slab path and is about to return
OverflowCorrectnessWitness ==
  \E c \in CPUS : /\ phase = "alive"
                  /\ pc[c] = "free_ret"
                  /\ frame[c].path = "slab"
                  /\ OverflowCase(c)

\* C9 (Preallocation serves allocations first): on a pool that one CPU has
\* to itself, with preallocate_count a multiple of BULK and a kmem_cache
\* that never fails, each of the first preallocate_count allocates returns
\* an element with no kmem_cache_alloc call made since qmempool_create, and
\* each of the next ExtraAllocs allocates returns an element with exactly
\* one slow-path refill (1 + REFILL_MULTIPLIER * BULK kmem_cache_alloc
\* calls) made since qmempool_create; so it is for (16, 64, 32) and 40 calls.
PreallocationServesFirst ==
  \A c \in CPUS :
    (/\ phase = "alive"
     /\ pc[c] = "alloc_ret"
     /\ caller[c] = "allocating"
     /\ args.prealloc % QMEMPOOL_BULK = 0) =>
       LET k == Len(held[c]) + 1 IN
       /\ frame[c].elem # NULL
       /\ slab.nulls = 0
       /\ k <= args.prealloc => KmemAllocCalls(slab) = args.prealloc
       /\ (k > args.prealloc /\ k <= args.prealloc + ExtraAllocs) =>
            KmemAllocCalls(slab) = args.prealloc + 1
                + QMEMPOOL_REFILL_MULTIPLIER * QMEMPOOL_BULK

\* the 40th allocate on a pool made with (16, 64, 32) is about to return
PreallocationServesFirstWitness ==
  \E c \in CPUS :
    /\ phase = "alive"
    /\ pc[c] = "alloc_ret"
    /\ caller[c] = "allocating"
    /\ args = Args(16, 64, 32, TRUE)
    /\ Len(held[c]) = 39

\* the free of an allocate-free pair of CPU c is about to return
PairDone(c) == phase = "alive" /\ pc[c] = "free_ret" /\ frame[c].rt

\* C10 as stated (Round-trip): an allocate followed at once by the free of
\* its element on the same CPU leaves every local cache and the shared pool
\* as full as the allocate found them.
RoundTripAsStated ==
  \A c \in CPUS : PairDone(c) => SameOccupancy(frame[c].rtpre)

\* the allocate of the pair took its element from the local cache, or
\* refilled a local cache of capacity BULK - 1 from the shared pool
NoSurplus(c) ==
  \/ frame[c].rtpre.l[c] > 0
  \/ /\ frame[c].rtpre.s >= QMEMPOOL_BULK
     /\ args.localq_sz = QMEMPOOL_BULK

\* C10 (Round-trip, amended): an allocate followed at once by the free of
\* its element on the same CPU leaves every local cache and the shared pool
\* as full as the allocate found them, provided the allocate found the local
\* cache non-empty, or found BULK elements in the shared pool and the local
\* ring is of size BULK.
RoundTrip ==
  \A c \in CPUS : (PairDone(c) /\ NoSurplus(c)) => SameOccupancy(frame[c].rtpre)

\* a pair whose allocate refilled the local cache from the shared pool and
\* whose free pushed the batch back is about to return
RoundTripWitness ==
  \E c \in CPUS :
    /\ PairDone(c)
    /\ frame[c].rtpre.l[c] = 0
    /\ frame[c].rtpre.s >= QMEMPOOL_BULK
    /\ args.localq_sz = QMEMPOOL_BULK
    /\ frame[c].path = "sharedq"

\* qmempool_create has just made a pool: no call has run on it yet
JustCreated ==
  /\ phase = "alive"
  /\ \A c \in CPUS : caller[c] = "start" /\ pc[c] = "idle"

\* C11 (Create postcondition): when qmempool_create has made a pool,
\* exactly preallocate_count kmem_cache_alloc calls were made and none
\* returned NULL, the shared pool holds exactly those elements, each once,
\* every CPU's local cache exists and is empty, and its refill_cnt and
\* full_cnt are zero; so it is also when preallocate_count is no multiple
\* of BULK.
CreatePostcondition ==
  JustCreated =>
     /\ err = "ok"
     /\ ArgError(args) = "ok"
     /\ KmemAllocCalls(slab) = args.prealloc /\ slab.nulls = 0
     /\ slab.nfree = 0
     /\ sharedq.live /\ sharedq.sz = args.sharedq_sz
     /\ Len(sharedq.q) = args.prealloc
     /\ Range(sharedq.q) = 1..args.prealloc
     /\ \A c \in CPUS : /\ localq[c].live
                         /\ localq[c].sz = args.localq_sz
                         /\ localq[c].q = <<>>
                         /\ refill_cnt[c] = 0
                         /\ full_cnt[c] = 0

\* a pool made with a preallocation that is no multiple of BULK
CreatePostconditionWitness ==
  JustCreated /\ args.prealloc = 63 /\ args.sharedq_sz = 64
              /\ args.localq_sz = 32

\* an allocate of CPU c has seen kmem_cache_alloc return NULL in a refill
\* round, after the direct allocation of its element
PartialRefill(c) ==
  /\ frame[c].kind = "alloc"
  /\ frame[c].path = "slab"
  /\ frame[c].elem # NULL
  /\ frame[c].knulls > 0

\* C12 (Partial refill failure): when kmem_cache_alloc returns NULL at the
\* k-th allocation of a refill round, the k elements of that round are
\* enqueued into the shared pool (so every element the call has allocated
\* but the caller's is in the shared pool), no further round runs, no fatal
\* assertion fires and the allocate returns the caller's element.
PartialRefillFailure ==
  \A c \in CPUS :
    PartialRefill(c) =>
      /\ phase # "oops"
      /\ pc[c] = "alloc_ret"
      /\ frame[c].knulls = 1
      /\ Len(sharedq.q) - frame[c].pre.s
           = KmemAllocCalls(slab) - frame[c].pre.na - 1

\* C13 (Shared-pool refill never overflows under concurrency): whatever
\* the interleaving of the calls of the CPUs, every bulk enqueue of BULK
\* elements into the shared pool made by the slowest allocate path
\* succeeds: the fatal assertion of line 271 never fires.
RefillNeverOverflows ==
  \A c \in CPUS :
    ~(/\ phase = "oops"
      /\ pc[c] = "slab_refill"
      /\ frame[c].knulls = 0
      /\ ~EnqueueFits(sharedq, QMEMPOOL_BULK))

\* C14 (Shrink never underflows under concurrency): whatever the other
\* CPUs do meanwhile, each of the REFILL_MULTIPLIER bulk dequeues of a
\* free-to-slab path entered after a failed bulk enqueue succeeds: the
\* fatal assertion of line 302 never fires.
ShrinkNeverUnderflows ==
  \A c \in CPUS :
    ~(/\ phase = "oops"
      /\ pc[c] = "free_to_slab"
      /\ ~DequeueFits(sharedq, QMEMPOOL_BULK))

\* the allocate of CPU c has refilled its localq from sharedq
LocalRefilled(c) ==
  /\ phase = "alive"
  /\ pc[c] = "alloc_ret"
  /\ frame[c].path = "sharedq"

\* C15 (Local refill always fits): for every valid localq_sz, when an
\* allocate has taken BULK elements from the shared pool, the enqueue of
\* BULK-1 of them into the CPU's local cache succeeds (the fatal assertion
\* of line 221 never fires): the local cache was empty, holds exactly those
\* BULK-1 elements after it, and the first element goes to the caller.
LocalRefillFits ==
  \A c \in CPUS :
    /\ ~(phase = "oops" /\ pc[c] = "alloc_sharedq")
    /\ LocalRefilled(c) =>
         /\ frame[c].pre.l[c] = 0
         /\ Len(sharedq.q) = frame[c].pre.s - QMEMPOOL_BULK
         /\ localq[c].q = Tail(frame[c].elems)
         /\ Len(localq[c].q) = QMEMPOOL_BULK - 1
         /\ frame[c].elem = frame[c].elems[1]
         /\ frame[c].elem \notin Range(localq[c].q)

\* a refill of the smallest local cache allowed, which it fills
LocalRefillFitsWitness ==
  \E c \in CPUS : /\ LocalRefilled(c)
                   /\ args.localq_sz = QMEMPOOL_BULK
                   /\ ~EnqueueFits(localq[c], 1)

\* the next step of the allocate that CPU c is running
AllocStep(c) ==
  \/ qmempool_alloc_from_sharedq(c)
  \/ qmempool_alloc_from_slab(c)
  \/ qmempool_alloc_slab_refill(c)
  \/ qmempool_alloc_return(c)

InAlloc(c) ==
  pc[c] \in {"alloc_sharedq", "alloc_slab", "slab_refill", "alloc_ret"}

\* C16 as stated: an allocate makes at most one kmem_cache_alloc call
BoundedWorkAsStated ==
  \A c \in CPUS : frame[c].kind = "alloc" => frame[c].kcalls <= 1

\* C16 (Bounded backing-allocator work), amended: an allocate never waits
\* for another CPU (whatever the other CPUs are doing, its next step can be
\* taken), and it makes at most 1 + REFILL_MULTIPLIER * BULK
\* kmem_cache_alloc calls, at most REFILL_MULTIPLIER refill rounds and at
\* most 2 + REFILL_MULTIPLIER ring operations.
BoundedWork ==
  \A c \in CPUS :
    /\ frame[c].kind = "alloc" =>
         /\ frame[c].kcalls <= 1 + QMEMPOOL_REFILL_MULTIPLIER * QMEMPOOL_BULK
         /\ frame[c].i <= QMEMPOOL_REFILL_MULTIPLIER
         /\ frame[c].rops <= 2 + QMEMPOOL_REFILL_MULTIPLIER
    /\ (phase = "alive" /\ InAlloc(c)) => ENABLED AllocStep(c)

\* an allocate that took the slowest path returns while another CPU is in
\* the middle of a call
BoundedWorkWitness ==
  \E c \in CPUS :
    /\ phase = "alive"
    /\ pc[c] = "alloc_ret"
    /\ frame[c].kcalls = 1 + QMEMPOOL_REFILL_MULTIPLIER * QMEMPOOL_BULK
    /\ frame[c].rops = 2 + QMEMPOOL_REFILL_MULTIPLIER
    /\ \E d \in CPUS \ {c} : pc[d] \notin {"idle", "alloc_ret"}

\* between two calls of CPU c its counters equal its history
CountersMatch ==
  \A c \in CPUS :
    /\ JustCreated => refill_cnt[c] = 0 /\ full_cnt[c] = 0
    /\ pc[c] \in {"idle", "rt"} =>
         /\ refill_cnt[c] = events[c].refills
         /\ full_cnt[c] = events[c].shrinks

CountersGrow ==
  \A c \in CPUS : /\ refill_cnt'[c] >= refill_cnt[c]
                   /\ full_cnt'[c] >= full_cnt[c]

AssertionFired(c) ==
  /\ phase = "oops"
  /\ pc[c] \in {"alloc_sharedq", "slab_refill", "free_to_slab"}

\* C18 (Sequential assertion-freedom): with the calls running one at a
\* time, on any CPU, and kmem_cache_alloc never returning NULL, none of the
\* three fatal assertions fires: the bulk enqueue into localq after a
\* refill, the bulk enqueue into sharedq of the slowest allocate path and
\* the bulk dequeue from sharedq of the shrink all succeed.
SequentialAssertionFree ==
  (err = "ok" /\ slab.nulls = 0) => \A c \in CPUS : ~AssertionFired(c)

\* all three assertions have been passed, and both CPUs have refilled
SequentialAssertionFreeWitness ==
  /\ phase = "alive"
  /\ slab.nulls = 0
  /\ \E c \in CPUS : events[c].shrinks > 0 /\ events[c].refills > 0
  /\ \A c \in CPUS : events[c].refills > 0
  /\ KmemAllocCalls(slab) > QMEMPOOL_REFILL_MULTIPLIER * QMEMPOOL_BULK

\* the allocate of CPU c found its localq empty and fewer than BULK
\* elements in sharedq
FoundRemainder(c) ==
  /\ pc[c] = "alloc_ret"
  /\ frame[c].pre.l[c] = 0
  /\ frame[c].pre.s < QMEMPOOL_BULK

\* C19 (Shared pool moves only in whole batches): in a pool that was
\* created, as long as kmem_cache_alloc has not returned NULL, the
\* occupancy of sharedq is congruent to the preallocation modulo BULK in
\* every state; and an allocate that finds fewer than BULK elements in
\* sharedq leaves them there and returns a newly allocated element.
WholeBatches ==
  (phase = "alive" /\ slab.nulls = 0) =>
    /\ Len(sharedq.q) % QMEMPOOL_BULK = args.prealloc % QMEMPOOL_BULK
    /\ \A c \in CPUS :
         FoundRemainder(c) =>
           /\ frame[c].path = "slab"
           /\ frame[c].elem = frame[c].pre.na + 1
           /\ frame[c].elem \notin 1..args.prealloc
           /\ Len(sharedq.q) = frame[c].pre.s
                + QMEMPOOL_REFILL_MULTIPLIER * QMEMPOOL_BULK

\* an allocate that found a remainder of 8 elements in sharedq
WholeBatchesWitness ==
  /\ phase = "alive"
  /\ args.prealloc % QMEMPOOL_BULK = 8
  /\ \E c \in CPUS : FoundRemainder(c) /\ frame[c].pre.s = 8
                                       /\ frame[c].path = "slab"

\* a step of an allocate or of a free running on CPU i
CallStep(i) ==
  \/ \E rt \in BOOLEAN : qmempool_alloc(i, rt)
  \/ AllocStep(i)
  \/ \E h \in Range(held[i]) : qmempool_free(i, h)
  \/ qmempool_free_to_sharedq(i)
  \/ qmempool_free_to_slab(i)
  \/ qmempool_free_return(i)

\* a step of __qmempool_alloc_from_slab or of __qmempool_free_to_slab
SlowPathStep(i) ==
  \/ qmempool_alloc_from_slab(i)
  \/ qmempool_alloc_slab_refill(i)
  \/ qmempool_free_to_slab(i)

\* the step changes the localq or a counter of a CPU other than i
TouchesOther(i) ==
  \E j \in CPUS \ {i} : \/ localq'[j] # localq[j]
                          \/ refill_cnt'[j] # refill_cnt[j]
                          \/ full_cnt'[j] # full_cnt[j]

\* by contraposition: a step that touches another CPU is no step of a call
\* on CPU i, and one that changes the localq of CPU i no slow-path step
Isolated(i) ==
  /\ TouchesOther(i) => ~CallStep(i)
  /\ localq'[i] # localq[i] => ~SlowPathStep(i)

\* C20 (Per-CPU isolation): a step of an allocate or of a free running on
\* CPU i leaves the localq, refill_cnt and full_cnt of every other CPU as
\* they were, and the steps of the slowest allocate path and of the
\* free-to-slab path leave the localq of CPU i as it was too.
PerCpuIsolation == [][\A i \in CPUS : Isolated(i)]_vars

\* CPU i returns from the slowest allocate path while the localq of another
\* CPU, refilled before, holds elements
PerCpuIsolationWitness ==
  \E i \in CPUS :
    /\ phase = "alive"
    /\ pc[i] = "alloc_ret"
    /\ frame[i].path = "slab"
    /\ frame[i].elem # NULL
    /\ localq[i].q = <<>>
    /\ \E j \in CPUS \ {i} : localq[j].q # <<>> /\ refill_cnt[j] > 0

============================================================================
